---------------------------- MODULE Spec2Model ----------------------------
(***************************************************************************)
(* Model of the three checksum reconcilers of the repository:              *)
(*   fix_checksums.py               one package directory (argv[1])        *)
(*   scripts/fix_vendor_checksums.py  one crate directory (argv[1])        *)
(*   fix_all_checksums.py           every subdirectory of "vendor"         *)
(* Each reads <dir>/.cargo-checksum.json, recomputes the SHA-256 of every  *)
(* listed file, and rewrites the manifest when a digest differed.          *)
(*                                                                         *)
(* The file system is the state: per package a manifest file and the files *)
(* it may list.  One invocation is a sequential process whose position is  *)
(* pc; between invocations the environment may change files (Touch).       *)
(*                                                                         *)
(* Scope of the model: a manifest that parses is a JSON object whose       *)
(* "files" member is a mapping; the manifest file is not one of the paths  *)
(* it lists; a file that cannot be read stays unreadable until changed.    *)
(***************************************************************************)
EXTENDS Integers, FiniteSets, Sequences, TLC

\* ------------------------------------------------------------------ bounds
\* Number of distinct file contents; content 0 is one no file holds any more.
MaxContent == 1
Contents == 1..MaxContent

\* Package directories (under "vendor" for the whole-tree script) and the
\* relative paths a manifest may list, in manifest order.
Pkgs == {"libc", "serde"}
PathOrder == <<"Cargo.toml", "src/lib.rs">>
Paths == {PathOrder[i] : i \in 1..Len(PathOrder)}
\* The paths that belong to each package: libc has two files, serde one.
PathsOf(p) == IF p = "libc" THEN Paths ELSE {PathOrder[1]}
VENDOR_ROOT == "vendor"
None == ""

\* The three entry points.
Modes == {"fix_checksums", "fix_vendor_checksums", "fix_all_checksums"}
WholeTree(m) == m = "fix_all_checksums"

\* ------------------------------------------------------------- file system
\* A listed file: missing, present but unreadable (open raises), or readable
\* with some content.
NoFile == [st |-> "missing", c |-> 0]
Unreadable == [st |-> "unreadable", c |-> 0]
FileStates == {NoFile, Unreadable} \cup {[st |-> "ok", c |-> x] : x \in Contents}

\* hashlib.sha256(...).hexdigest(): an injective map from content to digest.
calculate_sha256(f) == <<"sha256", f.c>>
\* Digests a manifest may record: of a content on disk, or a stale one.
Digests == {<<"sha256", x>> : x \in 0..MaxContent}

\* The bytes of a manifest file.  kind: "absent" (no such file), "malformed"
\* (json.load raises), "empty" (truncated by open(..., "w")), "object" (a JSON
\* object).  fmt is the whitespace convention of the bytes; files is the
\* "files" mapping; other stands for every other top-level field.
NoData == [files |-> <<>>, other |-> None]
Bytes(k) == [kind |-> k, fmt |-> "none", files |-> <<>>, other |-> None]
ObjectBytes(fmt, fs, o) == [kind |-> "object", fmt |-> fmt, files |-> fs, other |-> o]
FilesMaps(p) == UNION {[K -> Digests] : K \in SUBSET PathsOf(p)}

\* json.load: fails on anything that is not JSON text; drops the formatting.
json_load_ok(b) == b.kind = "object"
json_load(b) == [files |-> b.files, other |-> b.other]

\* A serialiser that forgets the fields it does not know.
json_dump_files_only(d) == ObjectBytes("compact", d.files, None)
\* json.dump(data, f, separators=(',', ':')): every field, compact.
json_dump(d) == ObjectBytes("compact", d.files, d.other)

\* os.path.exists that answers yes for every path.
exists_always(f) == TRUE
os_path_exists(f) == f.st # "missing"

\* No entry point guards json.load.
parse_guard_none(m) == FALSE
\* try: data = json.load(f) / except: continue  (whole-tree only).
CatchesParseError(m) == WholeTree(m)

\* No entry point guards the read.
read_guard_none(m) == FALSE
\* try: actual = sha256_file(filepath) ... / except: pass  (whole-tree only).
CatchesReadError(m) == WholeTree(m)

\* The entry is marked changed but the new digest is not stored.
store_nothing(d, k, h) == d
\* data["files"][filename] = current_hash
StoreDigest(d, k, h) == [d EXCEPT !.files = [@ EXCEPT ![k] = h]]

\* A comparison that reports every digest as different.
differs_always(old, new) == TRUE
\* if data["files"][filename] != current_hash
Differs(old, new) == old # new

\* A write that does not depend on the dirty flag.
write_always(flag) == TRUE
\* if changed: / if modified: / if updated:
ShouldWrite(flag) == flag

\* A summary that does not look at the dirty flag.
summary_always_updated(m, flag) == "updated"
\* The last line a run prints once the entries are processed:
\* "Checksums updated." / "Updated checksums in ..." versus
\* "No changes needed." / "No checksum mismatches found.";
\* the whole-tree script prints "All checksums verified/updated." either way.
SummaryLine(m, flag) ==
    IF WholeTree(m) THEN "verified/updated"
    ELSE IF flag THEN "updated" ELSE "no changes"

\* ------------------------------------------------------------------- state
VARIABLES
    mode,       \* the entry point that is run
    target,     \* argv[1] of the single-package entry points; VENDOR_ROOT otherwise
    rootExists, \* os.path.exists(VENDOR_ROOT)
    manifest,   \* manifest[p]: bytes of <p>/.cargo-checksum.json
    files,      \* files[p][k]: the file <p>/<k>
    pc,         \* "idle", "scan", "entries", "write", "done", "failed"
    todo,       \* whole tree: entries of os.listdir not yet visited
    cur,        \* the package being processed (None: none)
    data,       \* the parsed manifest in memory
    rest,       \* keys of data["files"] not yet iterated
    changed,    \* changed / modified / updated
    line,       \* the last summary line printed
    exit,       \* exit status of the finished process (-1: none yet)
    pre,        \* history: the manifests when the run started
    writes,     \* history: writes[p], times the manifest was opened for writing
    differed,   \* history: packages where a recomputed digest differed
    rerun       \* history: this run follows a completed run with no change between

vars == <<mode, target, rootExists, manifest, files, pc, todo, cur, data, rest,
          changed, line, exit, pre, writes, differed, rerun>>

Scope == IF WholeTree(mode) THEN Pkgs ELSE {target}

\* Iteration order of the "files" mapping: the order of its keys in the file.
Rank(k) == CHOOSE i \in 1..Len(PathOrder) : PathOrder[i] = k
First(S) == CHOOSE x \in S : \A y \in S : Rank(x) <= Rank(y)

Formats == {"compact", "spaced"}
ManifestStates(p) ==
    {Bytes("absent"), Bytes("malformed")}
        \cup {ObjectBytes(fmt, fs, p) : fmt \in Formats, fs \in FilesMaps(p)}

\* A vendor tree whose manifests share one whitespace convention; sh[p] says
\* whether package p has a manifest that parses, and its "files" mapping.
\* The other fields of a manifest (cargo's "package" digest) differ per package.
Shapes ==
    {[kind |-> k, files |-> <<>>] : k \in {"absent", "malformed"}}
        \cup {[kind |-> "object", files |-> fs] : fs \in UNION {FilesMaps(p) : p \in Pkgs}}
Tree(sh, fmt) ==
    [p \in Pkgs |-> IF sh[p].kind = "object" THEN ObjectBytes(fmt, sh[p].files, p)
                     ELSE Bytes(sh[p].kind)]

\* ------------------------------------------------------------------- Init
Init ==
    /\ mode \in Modes
    /\ target \in (IF WholeTree(mode) THEN {VENDOR_ROOT} ELSE Pkgs)
    /\ rootExists \in (IF WholeTree(mode) THEN BOOLEAN ELSE {TRUE})
    /\ \E fmt \in Formats :
          manifest \in {Tree(sh, fmt) : sh \in [Pkgs -> Shapes]}
    /\ \A p \in Pkgs : manifest[p] \in ManifestStates(p)
    /\ files \in [Pkgs -> [Paths -> FileStates]]
    /\ \A p \in Pkgs :
          /\ (~rootExists \/ p \notin Scope) => manifest[p] = Bytes("absent")
          /\ \A k \in Paths :
                (~rootExists \/ p \notin Scope \/ k \notin PathsOf(p)) => files[p][k] = NoFile
    /\ pc = "idle"
    /\ todo = {}
    /\ cur = None
    /\ data = NoData
    /\ rest = {}
    /\ changed = FALSE
    /\ line = "none"
    /\ exit = -1
    /\ pre = manifest
    /\ writes = [p \in Pkgs |-> 0]
    /\ differed = {}
    /\ rerun = FALSE

Stopped == pc \in {"idle", "done", "failed"}

\* What every new invocation starts from.
Fresh ==
    /\ pre' = manifest
    /\ writes' = [p \in Pkgs |-> 0]
    /\ differed' = {}
    /\ rerun' = (pc = "done")
    /\ changed' = FALSE

\* The process ends: status s, last line l.
Halt(s, l) ==
    /\ pc' = (IF s = 0 THEN "done" ELSE "failed")
    /\ exit' = s
    /\ line' = l
    /\ cur' = None
    /\ data' = NoData
    /\ rest' = {}
    /\ todo' = {}

\* ------------------------------------------------------------- environment
\* Between runs, something changes one file of a package.
Touch(p, k, f) ==
    /\ Stopped
    /\ rootExists
    /\ p \in Scope
    /\ k \in PathsOf(p)
    /\ f # files[p][k]
    /\ files' = [files EXCEPT ![p][k] = f]
    /\ pc' = "idle"
    /\ line' = "none"
    /\ exit' = -1
    /\ pre' = manifest
    /\ writes' = [q \in Pkgs |-> 0]
    /\ differed' = {}
    /\ rerun' = FALSE
    /\ UNCHANGED <<mode, target, rootExists, manifest, todo, cur, data, rest, changed>>

\* ---------------------------------------------------------- single package
\* __main__ with no argument: usage line, sys.exit(1).
Usage ==
    /\ Stopped
    /\ ~WholeTree(mode)
    /\ Halt(1, "usage")
    /\ pre' = manifest
    /\ writes' = [p \in Pkgs |-> 0]
    /\ differed' = {}
    /\ rerun' = FALSE
    /\ changed' = FALSE
    /\ UNCHANGED <<mode, target, rootExists, manifest, files>>

\* __main__ with argv[1] = target, then fix_checksums up to the loop:
\* no manifest: print and return; json.load raises: the exception ends the
\* process; otherwise the entries are iterated.
fix_checksums ==
    /\ Stopped
    /\ ~WholeTree(mode)
    /\ Fresh
    /\ IF manifest[target].kind = "absent"
         THEN Halt(0, "not found")
         ELSE IF ~json_load_ok(manifest[target]) /\ ~CatchesParseError(mode)
           THEN Halt(1, "traceback")
           ELSE /\ pc' = "entries"
                /\ cur' = target
                /\ data' = json_load(manifest[target])
                /\ rest' = DOMAIN manifest[target].files
                /\ line' = "none"
                /\ exit' = -1
                /\ UNCHANGED todo
    /\ UNCHANGED <<mode, target, rootExists, manifest, files>>

\* -------------------------------------------------------------- whole tree
\* The script's start: no vendor directory: notice, exit(0); else list it.
fix_all_checksums ==
    /\ Stopped
    /\ WholeTree(mode)
    /\ Fresh
    /\ IF ~rootExists
         THEN Halt(0, "no vendor")
         ELSE /\ pc' = "scan"
              /\ todo' = Pkgs
              /\ line' = "none"
              /\ exit' = -1
              /\ UNCHANGED <<cur, data, rest>>
    /\ UNCHANGED <<mode, target, rootExists, manifest, files>>

\* One iteration of "for package in os.listdir(VENDOR_ROOT)" up to the inner
\* loop: an entry without a manifest is passed over; a manifest json.load
\* rejects is passed over (except: continue); otherwise its entries follow.
NextPackage(p) ==
    /\ pc = "scan"
    /\ p \in todo
    /\ todo' = todo \ {p}
    /\ IF manifest[p].kind = "absent"
         THEN UNCHANGED <<pc, cur, data, rest, changed, line, exit>>
         ELSE IF ~json_load_ok(manifest[p])
           THEN IF CatchesParseError(mode)
                  THEN UNCHANGED <<pc, cur, data, rest, changed, line, exit>>
                  ELSE /\ pc' = "failed"
                       /\ exit' = 1
                       /\ line' = "traceback"
                       /\ UNCHANGED <<cur, data, rest, changed>>
           ELSE /\ pc' = "entries"
                /\ cur' = p
                /\ data' = json_load(manifest[p])
                /\ rest' = DOMAIN manifest[p].files
                /\ changed' = FALSE
                /\ UNCHANGED <<line, exit>>
    /\ UNCHANGED <<mode, target, rootExists, manifest, files, pre, writes, differed, rerun>>

\* The listing is exhausted: print("All checksums verified/updated."), status 0.
Finish ==
    /\ pc = "scan"
    /\ todo = {}
    /\ Halt(0, SummaryLine(mode, changed))
    /\ UNCHANGED <<mode, target, rootExists, manifest, files, changed, pre, writes,
                   differed, rerun>>

\* ------------------------------------------------------------ shared steps
\* One iteration of the loop over data["files"], in manifest order.
Entry ==
    /\ pc = "entries"
    /\ rest # {}
    /\ LET k == First(rest)
           f == files[cur][k]
       IN IF ~os_path_exists(f)
            THEN \* "File not found" / "Warning: ..." / nothing: entry untouched
                 /\ rest' = rest \ {k}
                 /\ UNCHANGED <<pc, data, changed, differed, line, exit, cur, todo>>
            ELSE IF f.st # "ok"
              THEN \* open(filepath, "rb") raises
                   IF CatchesReadError(mode)
                     THEN /\ rest' = rest \ {k}
                          /\ UNCHANGED <<pc, data, changed, differed, line, exit, cur, todo>>
                     ELSE /\ Halt(1, "traceback")
                          /\ UNCHANGED <<changed, differed>>
              ELSE LET h == calculate_sha256(f)
                   IN /\ rest' = rest \ {k}
                      /\ IF Differs(data.files[k], h)
                           THEN /\ data' = StoreDigest(data, k, h)
                                /\ changed' = TRUE
                                /\ differed' =
                                     IF data.files[k] # h THEN differed \cup {cur}
                                     ELSE differed
                           ELSE UNCHANGED <<data, changed, differed>>
                      /\ UNCHANGED <<pc, line, exit, cur, todo>>
    /\ UNCHANGED <<mode, target, rootExists, manifest, files, pre, writes, rerun>>

\* The loop is over and nothing is to be written: the summary line (single
\* package) or the next package (whole tree).
NoWrite ==
    /\ pc = "entries"
    /\ rest = {}
    /\ ~ShouldWrite(changed)
    /\ IF WholeTree(mode)
         THEN /\ pc' = "scan"
              /\ cur' = None
              /\ data' = NoData
              /\ UNCHANGED <<rest, todo, line, exit>>
         ELSE Halt(0, SummaryLine(mode, changed))
    /\ UNCHANGED <<mode, target, rootExists, manifest, files, changed, pre, writes,
                   differed, rerun>>

\* open(checksum_file, "w"): the manifest is truncated before anything is written.
OpenForWrite ==
    /\ pc = "entries"
    /\ rest = {}
    /\ ShouldWrite(changed)
    /\ manifest' = [manifest EXCEPT ![cur] = Bytes("empty")]
    /\ writes' = [writes EXCEPT ![cur] = @ + 1]
    /\ pc' = "write"
    /\ UNCHANGED <<mode, target, rootExists, files, todo, cur, data, rest, changed, line,
                   exit, pre, differed, rerun>>

\* json.dump(data, f, separators=(',', ':')) and the close; then the summary
\* line (single package) or the next package (whole tree).
Dump ==
    /\ pc = "write"
    /\ manifest' = [manifest EXCEPT ![cur] = json_dump(data)]
    /\ IF WholeTree(mode)
         THEN /\ pc' = "scan"
              /\ cur' = None
              /\ data' = NoData
              /\ UNCHANGED <<rest, todo, line, exit>>
         ELSE Halt(0, SummaryLine(mode, changed))
    /\ UNCHANGED <<mode, target, rootExists, files, changed, pre, writes, differed, rerun>>

\* The write does not finish (OSError from write/close, or the process is
\* killed): nothing guards it in any entry point.
WriteFail ==
    /\ pc = "write"
    /\ Halt(1, "traceback")
    /\ UNCHANGED <<mode, target, rootExists, manifest, files, changed, pre, writes,
                   differed, rerun>>

Next ==
    \/ \E p \in Pkgs, k \in Paths, f \in FileStates : Touch(p, k, f)
    \/ Usage
    \/ fix_checksums
    \/ fix_all_checksums
    \/ \E p \in Pkgs : NextPackage(p)
    \/ Finish
    \/ Entry
    \/ NoWrite
    \/ OpenForWrite
    \/ Dump
    \/ WriteFail

Spec == Init /\ [][Next]_vars

TypeOK ==
    /\ mode \in Modes
    /\ pc \in {"idle", "scan", "entries", "write", "done", "failed"}
    /\ \A p \in Pkgs : \A k \in Paths : files[p][k] \in FileStates
    /\ \A p \in Pkgs : manifest[p] \in ManifestStates(p) \cup {Bytes("empty")}
    /\ rest \subseteq Paths
    /\ exit \in {-1, 0, 1}
\* ------------------------------------------------------------------ claims
\* The entries of package p whose file can be read carry that file's digest.
Consistent(p) ==
    \A k \in DOMAIN manifest[p].files :
        files[p][k].st = "ok" => manifest[p].files[k] = calculate_sha256(files[p][k])

Finished == pc \in {"done", "failed"}

\* The run found a manifest that parses in a package it covers.
ReadManifest == \E p \in Scope : pre[p].kind = "object"

C2_Correct ==
    pc = "done" => \A p \in Scope : Consistent(p)

\* A completed run replaced a digest that did not match the file.
C2_Witness ==
    /\ pc = "done"
    /\ \E p \in Scope : \E k \in DOMAIN manifest[p].files :
          /\ files[p][k].st = "ok"
          /\ pre[p].kind = "object"
          /\ pre[p].files[k] # manifest[p].files[k]

C3_Kept ==
    /\ pc \in {"entries", "write"} =>
          /\ DOMAIN data.files = DOMAIN pre[cur].files
          /\ \A k \in DOMAIN data.files :
                files[cur][k].st = "missing" => data.files[k] = pre[cur].files[k]
    /\ pc = "done" =>
          \A p \in Pkgs : pre[p].kind = "object" =>
              /\ manifest[p].kind = "object"
              /\ DOMAIN manifest[p].files = DOMAIN pre[p].files
              /\ \A k \in DOMAIN pre[p].files :
                    files[p][k].st = "missing" => manifest[p].files[k] = pre[p].files[k]

C3_Step ==
    (pc = "entries" /\ rest # {} /\ files[cur][First(rest)].st = "missing") =>
        /\ pc' = "entries"
        /\ rest' = rest \ {First(rest)}
        /\ data' = data
        /\ changed' = changed

\* C3: in every entry point an entry whose file is missing does not end the
\* run, keeps its recorded digest, and the set of listed paths after the run is
\* the set before it.
C3_MissingKept == []C3_Kept /\ [][C3_Step]_vars

\* A manifest was rewritten while one of its entries names a missing file.
C3_Witness ==
    /\ pc = "done"
    /\ \E p \in Pkgs :
          /\ writes[p] = 1
          /\ \E k \in DOMAIN manifest[p].files : files[p][k].st = "missing"

\* C4: a manifest that a run rewrote carries the same value in every field
\* other than files as the manifest that was read.
C4_FieldsPreserved ==
    /\ pc \in {"entries", "write"} => data.other = pre[cur].other
    /\ \A p \in Pkgs :
          (writes[p] > 0 /\ manifest[p].kind = "object") => manifest[p].other = pre[p].other

\* A manifest with other fields was rewritten and its bytes changed.
C4_Witness ==
    \E p \in Pkgs :
        /\ writes[p] = 1
        /\ manifest[p].kind = "object"
        /\ manifest[p].other # None
        /\ manifest[p] # pre[p]

\* C5 as stated: in any run a manifest is written at most once, and it is
\* written if and only if a recomputed digest differed; otherwise its bytes
\* stay untouched.
C5_Original ==
    /\ \A p \in Pkgs : writes[p] <= 1
    /\ \A p \in Pkgs : p \notin differed => manifest[p] = pre[p]
    /\ Finished => \A p \in Pkgs : writes[p] = 1 <=> p \in differed

\* C5 amended: in any run a manifest is written at most once and only if a
\* recomputed digest differed, otherwise its bytes stay untouched; it is written
\* whenever one differed, unless a read error ends a single-package run first,
\* and then nothing is written.
C5_WriteOnlyWhenChanged ==
    /\ \A p \in Pkgs : writes[p] <= 1
    /\ \A p \in Pkgs : writes[p] = 1 => p \in differed
    /\ \A p \in Pkgs : p \notin differed => manifest[p] = pre[p]
    /\ pc = "done" => \A p \in Pkgs : p \in differed => writes[p] = 1
    /\ pc = "failed" =>
          \A p \in differed :
              writes[p] = 0 =>
                  /\ ~WholeTree(mode)
                  /\ manifest = pre
                  /\ \E k \in DOMAIN pre[p].files : files[p][k].st = "unreadable"

\* A whole-tree run wrote one manifest and left the other, consistent one alone.
C5_Witness ==
    /\ pc = "done"
    /\ WholeTree(mode)
    /\ writes["libc"] = 1
    /\ writes["serde"] = 0
    /\ manifest["serde"].fmt = "spaced"
    /\ \E k \in DOMAIN manifest["serde"].files : files["serde"][k].st = "ok"

\* C6 as stated: a single-package run on a directory without a manifest ends
\* with a non-zero exit status.
C6_Original ==
    (~WholeTree(mode) /\ Finished /\ line # "usage" /\ pre[target].kind = "absent")
        => exit # 0

C9_Original ==
    \A p \in Pkgs :
        \/ manifest[p] = pre[p]
        \/ manifest[p].kind = "object" /\ p \in differed

C10_Outcome ==
    /\ (WholeTree(mode) /\ pc = "done") =>
          \A p \in Pkgs : \A k \in DOMAIN pre[p].files :
              /\ files[p][k].st = "unreadable" => manifest[p].files[k] = pre[p].files[k]
              /\ files[p][k].st = "ok" => manifest[p].files[k] = calculate_sha256(files[p][k])
    /\ (WholeTree(mode) /\ Finished) =>
          \A p \in Pkgs : writes[p] = 1 =>
              \E k \in DOMAIN pre[p].files :
                  files[p][k].st = "ok" /\ pre[p].files[k] # calculate_sha256(files[p][k])
    /\ (~WholeTree(mode) /\ pc = "done" /\ pre[target].kind = "object") =>
          \A k \in DOMAIN pre[target].files : files[target][k].st # "unreadable"

C10_Step ==
    (pc = "entries" /\ rest # {} /\ files[cur][First(rest)].st = "unreadable") =>
        IF WholeTree(mode)
          THEN /\ pc' = "entries"
               /\ rest' = rest \ {First(rest)}
               /\ data' = data
               /\ changed' = changed
          ELSE /\ pc' = "failed"
               /\ exit' = 1
               /\ manifest' = manifest

\* C10: a listed file that exists but cannot be read is passed over by the
\* whole-tree script (its entry keeps the recorded digest, it is not counted as
\* an update, the other entries are still processed and written), and ends the
\* run with an error in the two single-package scripts.
C10_ReadFailure == []C10_Outcome /\ [][C10_Step]_vars

\* A whole-tree run passed over an unreadable first entry and rewrote the
\* manifest for the entry after it.
C10_Witness ==
    /\ WholeTree(mode)
    /\ pc = "done"
    /\ PathOrder[1] \in DOMAIN pre["libc"].files
    /\ files["libc"][PathOrder[1]].st = "unreadable"
    /\ PathOrder[2] \in DOMAIN pre["libc"].files
    /\ pre["libc"].files[PathOrder[2]] # manifest["libc"].files[PathOrder[2]]
=============================================================================
